---------------------------- MODULE Spec2Model ----------------------------
(***************************************************************************)
(* A model of the Sudoku engine of sudoku_solver.py (class SudokuSolver):  *)
(* placement validity, the recursive backtracking search of solve, the     *)
(* bounded solution counter and the puzzle generator.  The recursion of    *)
(* _solve_backtrack and of count_solutions' backtrack is an explicit stack *)
(* of frames, one frame per invocation that found an empty cell, and pc is *)
(* the position of the running call.                                       *)
(* Further specifications run is_valid_board cell by cell, put a caller    *)
(* that holds the list it built the solver with next to the solver, and    *)
(* put the window of sudoku_gui.py, whose handlers run while a thread is   *)
(* in solve, next to the search.                                           *)
(***************************************************************************)
EXTENDS Integers, Sequences, FiniteSets

(***************************************************************************)
(* Program constants.                                                      *)
(***************************************************************************)
N == 9
BoxSize == 3

(***************************************************************************)
(* Bounds of the model.                                                    *)
(***************************************************************************)
\* how many of the cells of EditCellList may be cleared in the grid a solver
\* is constructed with
MaxEditCells == 5
\* how many of the cells of PokeCellList may hold a digit of the caller's
MaxPokeCells == 1
\* how many engine calls (solve, count_solutions) one behaviour makes
MaxCalls == 1
\* the largest max_solutions a caller passes to count_solutions
MaxCap == 2
\* how many outcomes of the three box shuffles of generate_puzzle (SeedList)
MaxSeedings == 2
\* how many outcomes of the shuffle of all_cells (ShuffleList)
MaxShuffles == 1
\* how many of the cells of EditCellList may be cleared in the grid a caller
\* builds its solver with
MaxClientCells == 2
\* how many calls a caller makes on its solver, its own writes included
MaxClientCalls == 2
\* how many of the cells of GuiCellList the user of the window types into
MaxGuiCells == 2
\* how many keys and buttons the user of the window presses
MaxGuiEvents == 3

Idx == 0 .. (N - 1)
Cells == Idx \X Idx
\* range(1, 10), the candidates of both searches in the order they are tried
\* range(1, 9): the loop one candidate short
Candidates_short == 1 .. 8
Candidates == 1 .. 9
None == << >>

FromRows(rows) == [r \in Idx |-> [c \in Idx |-> rows[r + 1][c + 1]]]

EmptyBoard == [r \in Idx |-> [c \in Idx |-> 0]]

\* get_sample_puzzle: the three literal grids
SampleEasy == FromRows(<<
    <<5, 3, 0, 0, 7, 0, 0, 0, 0>>,
    <<6, 0, 0, 1, 9, 5, 0, 0, 0>>,
    <<0, 9, 8, 0, 0, 0, 0, 6, 0>>,
    <<8, 0, 0, 0, 6, 0, 0, 0, 3>>,
    <<4, 0, 0, 8, 0, 3, 0, 0, 1>>,
    <<7, 0, 0, 0, 2, 0, 0, 0, 6>>,
    <<0, 6, 0, 0, 0, 0, 2, 8, 0>>,
    <<0, 0, 0, 4, 1, 9, 0, 0, 5>>,
    <<0, 0, 0, 0, 8, 0, 0, 7, 9>> >>)

SampleMedium == FromRows(<<
    <<0, 0, 0, 2, 6, 0, 7, 0, 1>>,
    <<6, 8, 0, 0, 7, 0, 0, 9, 0>>,
    <<1, 9, 0, 0, 0, 4, 5, 0, 0>>,
    <<8, 2, 0, 1, 0, 0, 0, 4, 0>>,
    <<0, 0, 4, 6, 0, 2, 9, 0, 0>>,
    <<0, 5, 0, 0, 0, 3, 0, 2, 8>>,
    <<0, 0, 9, 3, 0, 0, 0, 7, 4>>,
    <<0, 4, 0, 0, 5, 0, 0, 3, 6>>,
    <<7, 0, 3, 0, 1, 8, 0, 0, 0>> >>)

SampleHard == FromRows(<<
    <<0, 0, 0, 6, 0, 0, 4, 0, 0>>,
    <<7, 0, 0, 0, 0, 3, 6, 0, 0>>,
    <<0, 0, 0, 0, 9, 1, 0, 8, 0>>,
    <<0, 0, 0, 0, 0, 0, 0, 0, 0>>,
    <<0, 5, 0, 1, 8, 0, 0, 0, 3>>,
    <<0, 0, 0, 3, 0, 6, 0, 4, 5>>,
    <<0, 4, 0, 2, 0, 0, 0, 6, 0>>,
    <<9, 0, 3, 0, 0, 0, 0, 0, 0>>,
    <<0, 2, 0, 0, 0, 0, 1, 0, 0>> >>)

(***************************************************************************)
(* The pure parts of the engine.                                           *)
(***************************************************************************)

\* is_valid with the column test of the row scan left out (col != x)
is_valid_self(b, num, pos) ==
    LET row == pos[1]
        col == pos[2]
        box_x == col \div BoxSize
        box_y == row \div BoxSize
    IN  /\ \A x \in Idx : ~(b[row][x] = num)
        /\ \A x \in Idx : ~(b[x][col] = num /\ row # x)
        /\ \A i \in (box_y * BoxSize) .. (box_y * BoxSize + BoxSize - 1) :
             \A j \in (box_x * BoxSize) .. (box_x * BoxSize + BoxSize - 1) :
                ~(b[i][j] = num /\ <<i, j>> # pos)

\* is_valid with the column scan left out
is_valid_nocol(b, num, pos) ==
    LET row == pos[1]
        col == pos[2]
        box_x == col \div BoxSize
        box_y == row \div BoxSize
    IN  /\ \A x \in Idx : ~(b[row][x] = num /\ col # x)
        /\ \A i \in (box_y * BoxSize) .. (box_y * BoxSize + BoxSize - 1) :
             \A j \in (box_x * BoxSize) .. (box_x * BoxSize + BoxSize - 1) :
                ~(b[i][j] = num /\ <<i, j>> # pos)

\* is_valid with the box scan left out
is_valid_nobox(b, num, pos) ==
    LET row == pos[1]
        col == pos[2]
    IN  /\ \A x \in Idx : ~(b[row][x] = num /\ col # x)
        /\ \A x \in Idx : ~(b[x][col] = num /\ row # x)

is_valid(b, num, pos) ==
    LET row == pos[1]
        col == pos[2]
        box_x == col \div BoxSize
        box_y == row \div BoxSize
    IN  /\ \A x \in Idx : ~(b[row][x] = num /\ col # x)
        /\ \A x \in Idx : ~(b[x][col] = num /\ row # x)
        /\ \A i \in (box_y * BoxSize) .. (box_y * BoxSize + BoxSize - 1) :
             \A j \in (box_x * BoxSize) .. (box_x * BoxSize + BoxSize - 1) :
                ~(b[i][j] = num /\ <<i, j>> # pos)

\* the inner loop, for j in range(9), of row i from column j on
RECURSIVE find_in_row(_, _, _)
find_in_row(b, i, j) ==
    IF j = N THEN None
    ELSE IF b[i][j] = 0 THEN <<i, j>>
    ELSE find_in_row(b, i, j + 1)

\* the outer loop, for i in range(9), from row i on
RECURSIVE find_from(_, _)
find_from(b, i) ==
    IF i = N THEN None
    ELSE LET here == find_in_row(b, i, 0)
         IN  IF here # None THEN here ELSE find_from(b, i + 1)

find_empty(b) == find_from(b, 0)

\* is_valid_board's answer: every filled cell, zeroed for the test, is a valid
\* placement of its own value
is_valid_board(b) ==
    \A i \in Idx : \A j \in Idx :
        b[i][j] # 0 => is_valid([b EXCEPT ![i][j] = 0], b[i][j], <<i, j>>)

\* the for loop of a search frame from the candidate after `after` on: the
\* next num the loop places, 0 when the loop runs out
NextValid(b, pos, after) ==
    LET ok == {n \in Candidates : n > after /\ is_valid(b, n, pos)}
    IN  IF ok = {} THEN 0 ELSE CHOOSE n \in ok : \A m \in ok : n <= m

\* the placement not written
PlaceCell_dropped(b, row, col, num) == b

\* the placement written with row and column exchanged
PlaceCell_transposed(b, row, col, num) == [b EXCEPT ![col][row] = num]

PlaceCell(b, row, col, num) == [b EXCEPT ![row][col] = num]

\* the reset of a failed placement forgotten
ResetCell_skip(b, row, col) == b

ResetCell(b, row, col) == [b EXCEPT ![row][col] = 0]


(***************************************************************************)
(* What the claims speak of, stated without the engine's own operators.    *)
(***************************************************************************)
Digits == 1 .. 9
Val(b, p) == b[p[1]][p[2]]

SameBox(p, q) == p[1] \div 3 = q[1] \div 3 /\ p[2] \div 3 = q[2] \div 3
PeersOf == [p \in Cells |->
              {q \in Cells : q # p /\ (q[1] = p[1] \/ q[2] = p[2] \/ SameBox(p, q))}]

NoPeerHolds(b, num, pos) == \A q \in PeersOf[pos] : Val(b, q) # num

Rows == {{<<r, c>> : c \in Idx} : r \in Idx}
Cols == {{<<r, c>> : r \in Idx} : c \in Idx}
Boxes == {{<<3 * i + di, 3 * j + dj>> : di \in 0 .. 2, dj \in 0 .. 2} : i \in 0 .. 2, j \in 0 .. 2}
Units == Rows \cup Cols \cup Boxes

\* no empty cell, and every row, column and box holds each of 1..9 exactly once
IsSolvedGrid(b) ==
    /\ \A p \in Cells : Val(b, p) # 0
    /\ \A u \in Units : \A d \in Digits : Cardinality({p \in u : Val(b, p) = d}) = 1

\* g fills exactly the empty cells of b
Extends(g, b) == \A p \in Cells : Val(b, p) # 0 => Val(g, p) = Val(b, p)

EmptyCells(b) == {p \in Cells : b[p[1]][p[2]] = 0}

Cand(b, p) == {d \in Digits : NoPeerHolds(b, d, p)}

\* an empty cell of b with the fewest candidates
Tightest(b) ==
    LET E == EmptyCells(b)
        cnt == [q \in E |-> Cardinality(Cand(b, q))]
        least == CHOOSE k \in 0 .. 9 : (\E q \in E : cnt[q] = k) /\ (\A q \in E : cnt[q] >= k)
    IN  CHOOSE q \in E : cnt[q] = least

\* b has a completion: a solved grid that extends it
RECURSIVE HasCompletion(_)
HasCompletion(b) ==
    IF EmptyCells(b) = {} THEN IsSolvedGrid(b)
    ELSE LET p == Tightest(b)
         IN  \E d \in Cand(b, p) : HasCompletion([b EXCEPT ![p[1]][p[2]] = d])

\* two filled cells of one row hold the same value
RowDuplicate(b) ==
    \E r \in Idx : \E c1 \in Idx, c2 \in Idx :
        c1 # c2 /\ b[r][c1] # 0 /\ b[r][c1] = b[r][c2]

\* the empty cells of b can all be given digits such that no digit given
\* repeats in its row, column or box (the filled cells of b are not compared
\* with one another)
RECURSIVE CanFillEmpties(_)
CanFillEmpties(b) ==
    IF EmptyCells(b) = {} THEN TRUE
    ELSE LET p == Tightest(b)
         IN  \E d \in Cand(b, p) : CanFillEmpties([b EXCEPT ![p[1]][p[2]] = d])

\* the empty cell of b that comes first in row-major order
FirstEmpty(b) ==
    CHOOSE p \in EmptyCells(b) :
        \A q \in EmptyCells(b) : 9 * p[1] + p[2] <= 9 * q[1] + q[2]

\* A depth-first search from a grid, told as a walk: path holds the cells
\* filled on the way down with the digit each holds, nodes counts the grids
\* the walk has come to.  The walk comes to a grid (at = "grid"), fills its
\* first empty cell with the least digit no peer holds and comes to the next
\* grid; at a cell (at = "cell") that has no digit left it steps back to the
\* cell before, empties that one and goes on with its next digit.  It is
\* over at the first full grid, or when it steps back from the first cell.
StartWalk(b) == [grid |-> b, path |-> << >>, nodes |-> 0, at |-> "grid", found |-> FALSE]

WalkStep(w) ==
    IF w.at = "over" THEN w
    ELSE IF w.at = "grid"
    THEN IF EmptyCells(w.grid) = {}
         THEN [w EXCEPT !.nodes = @ + 1, !.at = "over", !.found = TRUE]
         ELSE [w EXCEPT !.nodes = @ + 1, !.at = "cell",
                        !.path = Append(@, [cell |-> FirstEmpty(w.grid), digit |-> 0])]
    ELSE LET top == w.path[Len(w.path)]
             ds == {d \in Cand(w.grid, top.cell) : d > top.digit}
         IN  IF ds # {}
             THEN LET d == CHOOSE x \in ds : \A y \in ds : x <= y
                  IN  [w EXCEPT !.grid[top.cell[1]][top.cell[2]] = d,
                                !.path[Len(w.path)].digit = d,
                                !.at = "grid"]
             ELSE IF Len(w.path) = 1
             THEN [w EXCEPT !.path = << >>, !.at = "over"]
             ELSE LET back == w.path[Len(w.path) - 1]
                  IN  [w EXCEPT !.grid[back.cell[1]][back.cell[2]] = 0,
                                !.path = SubSeq(@, 1, Len(@) - 1)]

\* up to 4^k steps of the walk, a quarter at a time
RECURSIVE WalkOn(_, _)
WalkOn(w, k) ==
    IF w.at = "over" THEN w
    ELSE IF k = 0 THEN WalkStep(w)
    ELSE LET w1 == WalkOn(w, k - 1)
             w2 == WalkOn(w1, k - 1)
             w3 == WalkOn(w2, k - 1)
         IN  IF w1.at = "over" THEN w1
             ELSE IF w2.at = "over" THEN w2
             ELSE IF w3.at = "over" THEN w3
             ELSE WalkOn(w3, k - 1)

\* the nodes a depth-first search visits from b (-1: the walk is not over
\* within 4^8 steps)
Visits(b) ==
    LET w == WalkOn(StartWalk(b), 8)
    IN  IF w.at = "over" THEN w.nodes ELSE -1

\* the number of completions of b, counted up to cap
RECURSIVE CompletionsUpTo(_, _)
RECURSIVE CompletionsOver(_, _, _, _)
CompletionsOver(b, p, ds, cap) ==
    IF ds = {} \/ cap = 0 THEN 0
    ELSE LET d == CHOOSE x \in ds : TRUE
             k == CompletionsUpTo([b EXCEPT ![p[1]][p[2]] = d], cap)
         IN  k + CompletionsOver(b, p, ds \ {d}, cap - k)
CompletionsUpTo(b, cap) ==
    IF cap = 0 THEN 0
    ELSE IF EmptyCells(b) = {} THEN (IF IsSolvedGrid(b) THEN 1 ELSE 0)
    ELSE LET p == Tightest(b)
         IN  CompletionsOver(b, p, Cand(b, p), cap)

\* the completions of b, as a set of grids
RECURSIVE CompletionsOf(_)
CompletionsOf(b) ==
    IF EmptyCells(b) = {} THEN (IF IsSolvedGrid(b) THEN {b} ELSE {})
    ELSE LET p == Tightest(b)
         IN  UNION {CompletionsOf([b EXCEPT ![p[1]][p[2]] = d]) : d \in Cand(b, p)}

(***************************************************************************)
(* The state.                                                              *)
(***************************************************************************)
VARIABLES
    board,            \* self.board
    steps,            \* self.steps
    pc,               \* where the running call stands; "idle" between calls
    op,               \* the engine call in progress: none, solve, count, generate
    stack,            \* the frames of the recursion: row, col, and the num placed
    ret,              \* what the recursive call that just returned returned
    solutions,        \* solutions[0] of count_solutions
    max_solutions,    \* the argument of count_solutions
    original_board,   \* count_solutions' deep copy of the board
    result,           \* what the last finished engine call returned
    called_board,     \* the board as it was when the last engine call began
    calls,            \* engine calls made so far
    probe,            \* the last direct is_valid call: num, pos and its answer
    difficulty,       \* generate_puzzle's argument
    all_cells,        \* _remove_numbers' shuffled positions
    idx,              \* the position of _remove_numbers' for loop in all_cells
    removed,          \* _remove_numbers' count of kept removals
    cells_to_remove,  \* _remove_numbers' target
    backup,           \* the value _remove_numbers took out last
    solved_board,     \* generate_puzzle's copy of the completed grid
    caller_grid,      \* the list the caller built the solver with, once it is
                      \* no longer the list self.board names
    shared,           \* self.board names the very list the caller holds
    got,              \* the list get_board handed out last
    solve_board,      \* the board as it was when the last solve call began
    ui,               \* the grid shown by the window's SudokuBoard
    worker            \* the engine call a started thread has yet to make

search_vars == <<stack, ret, solutions, max_solutions, original_board>>
gen_vars == <<difficulty, all_cells, idx, removed, cells_to_remove, backup, solved_board>>
host_vars == <<caller_grid, shared, got, solve_board, ui, worker>>
vars == <<board, steps, pc, op, result, called_board, calls, probe,
          search_vars, gen_vars, host_vars>>

NoResult == [op |-> "none", value |-> 0, arg |-> 0]
NoProbe == [num |-> 0, pos |-> None, answer |-> FALSE]
NoWorker == [target |-> "none", original_board |-> None]

\* The grids a solver is constructed with: the all-zero default, the medium
\* sample, and the completed medium sample with some of the cells of
\* EditCells cleared and at most one of the cells of PokeCells overwritten
\* with a digit (a grid as a caller of the GUI may have typed it).
EditCellList == << <<2, 4>>, <<2, 5>>, <<5, 4>>, <<5, 5>>, <<8, 3>>, <<8, 8>> >>
EditCells == {EditCellList[i] : i \in 1 .. MaxEditCells}
PokeCellList == << <<5, 3>>, <<0, 0>> >>
PokeCells == {PokeCellList[i] : i \in 1 .. MaxPokeCells}

SolvedMedium == CHOOSE g \in CompletionsOf(SampleMedium) : TRUE

Cleared(b, H) == [r \in Idx |-> [c \in Idx |-> IF <<r, c>> \in H THEN 0 ELSE b[r][c]]]

EditedBoards ==
    LET cleared == {Cleared(SolvedMedium, H) : H \in SUBSET EditCells}
    IN  cleared \cup
        {[b EXCEPT ![p[1]][p[2]] = d] : b \in cleared, p \in PokeCells, d \in Digits}

InitBoards == {EmptyBoard, SampleMedium} \cup EditedBoards

InitRest ==
    /\ steps = 0
    /\ pc = "idle"
    /\ op = "none"
    /\ stack = << >>
    /\ ret = FALSE
    /\ solutions = 0
    /\ max_solutions = 0
    /\ original_board = EmptyBoard
    /\ result = NoResult
    /\ calls = 0
    /\ probe = NoProbe
    /\ difficulty = << >>
    /\ all_cells = << >>
    /\ idx = 0
    /\ removed = 0
    /\ cells_to_remove = 0
    /\ backup = 0
    /\ solved_board = EmptyBoard
    /\ got = EmptyBoard
    /\ solve_board = None
    /\ ui = EmptyBoard
    /\ worker = NoWorker

\* the caller keeps no name for the list it built the solver with
NoCaller ==
    /\ caller_grid = None
    /\ shared = FALSE

Init ==
    /\ board \in InitBoards
    /\ called_board = board
    /\ NoCaller
    /\ InitRest

\* self.board = <a new list>: the list the caller may hold stays as the
\* engine left it and is the engine's no more
Rebound ==
    /\ caller_grid' = (IF shared THEN board ELSE caller_grid)
    /\ shared' = FALSE

Top == stack[Len(stack)]
Pop == SubSeq(stack, 1, Len(stack) - 1)

(***************************************************************************)
(* solve and the recursion of _solve_backtrack.                            *)
(***************************************************************************)
\* solve setting out without the reset of steps
solve_keeps_steps ==
    /\ pc = "idle"
    /\ steps' = steps
    /\ op' = "solve"
    /\ called_board' = board
    /\ solve_board' = board
    /\ calls' = calls + 1
    /\ stack' = << >>
    /\ pc' = "sb_enter"
    /\ UNCHANGED <<board, result, probe, ret, solutions, max_solutions,
                   original_board, gen_vars, caller_grid, shared, got, ui, worker>>

solve ==
    /\ pc = "idle"
    /\ steps' = 0
    /\ op' = "solve"
    /\ called_board' = board
    /\ solve_board' = board
    /\ calls' = calls + 1
    /\ stack' = << >>
    /\ pc' = "sb_enter"
    /\ UNCHANGED <<board, result, probe, ret, solutions, max_solutions,
                   original_board, gen_vars, caller_grid, shared, got, ui, worker>>

\* entry of _solve_backtrack up to the for loop
solve_backtrack ==
    /\ pc = "sb_enter"
    /\ steps' = steps + 1
    /\ LET empty == find_empty(board)
       IN  IF empty = None
           THEN /\ ret' = TRUE
                /\ pc' = "sb_ret"
                /\ stack' = stack
           ELSE /\ stack' = Append(stack, [row |-> empty[1], col |-> empty[2], num |-> 0])
                /\ pc' = "sb_loop"
                /\ ret' = ret
    /\ UNCHANGED <<board, op, result, called_board, calls, probe, host_vars, solutions,
                   max_solutions, original_board, gen_vars>>

\* the for loop of the top frame up to its next placement, or to its end
solve_backtrack_loop ==
    /\ pc = "sb_loop"
    /\ LET f == Top
           n == NextValid(board, <<f.row, f.col>>, f.num)
       IN  IF n = 0
           THEN /\ stack' = Pop
                /\ ret' = FALSE
                /\ pc' = "sb_ret"
                /\ board' = board
           ELSE /\ board' = PlaceCell(board, f.row, f.col, n)
                /\ stack' = [stack EXCEPT ![Len(stack)].num = n]
                /\ pc' = "sb_enter"
                /\ ret' = ret
    /\ UNCHANGED <<steps, op, result, called_board, calls, probe, host_vars, solutions,
                   max_solutions, original_board, gen_vars>>

\* a recursive call returns into the frame that made it
solve_backtrack_return ==
    /\ pc = "sb_ret"
    /\ stack # << >>
    /\ IF ret
       THEN /\ stack' = Pop
            /\ pc' = "sb_ret"
            /\ board' = board
       ELSE /\ board' = ResetCell(board, Top.row, Top.col)
            /\ pc' = "sb_loop"
            /\ stack' = stack
    /\ UNCHANGED <<steps, op, ret, result, called_board, calls, probe, host_vars, solutions,
                   max_solutions, original_board, gen_vars>>

\* the outermost _solve_backtrack returns to solve
solve_return ==
    /\ pc = "sb_ret"
    /\ stack = << >>
    /\ op = "solve"
    /\ result' = [op |-> "solve", value |-> ret, arg |-> 0]
    /\ pc' = "idle"
    /\ op' = "none"
    /\ ret' = FALSE
    /\ UNCHANGED <<board, steps, called_board, calls, probe, host_vars, stack, solutions,
                   max_solutions, original_board, gen_vars>>

(***************************************************************************)
(* count_solutions and the recursion of its nested backtrack.              *)
(***************************************************************************)
count_solutions(m) ==
    /\ pc = "idle"
    /\ solutions' = 0
    /\ max_solutions' = m
    /\ original_board' = board
    /\ op' = "count"
    /\ called_board' = board
    /\ calls' = calls + 1
    /\ stack' = << >>
    /\ pc' = "bt_enter"
    /\ UNCHANGED <<board, steps, result, probe, host_vars, ret, gen_vars>>

\* the full-board answer of backtrack stopping the search at the first solution
full_board_stops(n, m) == TRUE

\* backtrack on a full board: return solutions[0] >= max_solutions
full_board_answer(n, m) == n >= m

backtrack ==
    /\ pc = "bt_enter"
    /\ LET empty == find_empty(board)
       IN  IF empty = None
           THEN /\ solutions' = solutions + 1
                /\ ret' = full_board_answer(solutions + 1, max_solutions)
                /\ pc' = "bt_ret"
                /\ stack' = stack
           ELSE /\ stack' = Append(stack, [row |-> empty[1], col |-> empty[2], num |-> 0])
                /\ pc' = "bt_loop"
                /\ UNCHANGED <<ret, solutions>>
    /\ UNCHANGED <<board, steps, op, result, called_board, calls, probe, host_vars,
                   max_solutions, original_board, gen_vars>>

backtrack_loop ==
    /\ pc = "bt_loop"
    /\ LET f == Top
           n == NextValid(board, <<f.row, f.col>>, f.num)
       IN  IF n = 0
           THEN /\ stack' = Pop
                /\ ret' = FALSE
                /\ pc' = "bt_ret"
                /\ board' = board
           ELSE /\ board' = PlaceCell(board, f.row, f.col, n)
                /\ stack' = [stack EXCEPT ![Len(stack)].num = n]
                /\ pc' = "bt_enter"
                /\ ret' = ret
    /\ UNCHANGED <<steps, op, result, called_board, calls, probe, host_vars, solutions,
                   max_solutions, original_board, gen_vars>>

\* a recursive backtrack returns into its caller: the cell is reset on both
\* paths, and True is passed on
backtrack_return ==
    /\ pc = "bt_ret"
    /\ stack # << >>
    /\ board' = ResetCell(board, Top.row, Top.col)
    /\ IF ret
       THEN /\ stack' = Pop
            /\ pc' = "bt_ret"
       ELSE /\ pc' = "bt_loop"
            /\ stack' = stack
    /\ UNCHANGED <<steps, op, ret, result, called_board, calls, probe, host_vars, solutions,
                   max_solutions, original_board, gen_vars>>

\* count_solutions leaving the all-zero grid behind instead of its copy
count_solutions_return_cleared ==
    /\ pc = "bt_ret"
    /\ stack = << >>
    /\ op = "count"
    /\ board' = EmptyBoard
    /\ result' = [op |-> "count", value |-> solutions, arg |-> max_solutions]
    /\ pc' = "idle"
    /\ op' = "none"
    /\ ret' = FALSE
    /\ solutions' = 0
    /\ max_solutions' = 0
    /\ original_board' = EmptyBoard
    /\ Rebound
    /\ UNCHANGED <<steps, called_board, calls, probe, stack, gen_vars,
                   got, solve_board, ui, worker>>

\* the outermost backtrack has returned: restore the board, return the count
count_solutions_return ==
    /\ pc = "bt_ret"
    /\ stack = << >>
    /\ op = "count"
    /\ board' = original_board
    /\ result' = [op |-> "count", value |-> solutions, arg |-> max_solutions]
    /\ pc' = "idle"
    /\ op' = "none"
    /\ ret' = FALSE
    /\ solutions' = 0
    /\ max_solutions' = 0
    /\ original_board' = EmptyBoard
    /\ Rebound
    /\ UNCHANGED <<steps, called_board, calls, probe, stack, gen_vars,
                   got, solve_board, ui, worker>>

Next ==
    \/ calls < MaxCalls /\ solve
    \/ solve_backtrack
    \/ solve_backtrack_loop
    \/ solve_backtrack_return
    \/ solve_return
    \/ calls < MaxCalls /\ \E m \in 0 .. MaxCap : count_solutions(m)
    \/ backtrack
    \/ backtrack_loop
    \/ backtrack_return
    \/ count_solutions_return

Spec == Init /\ [][Next]_vars

(***************************************************************************)
(* One call of solve on each grid a solver is constructed with, the search *)
(* going on as long as it has a step to take (a call that is running keeps *)
(* running).                                                               *)
(***************************************************************************)
\* the calls of _solve_backtrack that have been made and have not returned:
\* one per frame in its for loop, and the call just made
Depth == Len(stack) + (IF pc = "sb_enter" THEN 1 ELSE 0)

SearchStep ==
    \/ solve_backtrack
    \/ solve_backtrack_loop
    \/ solve_backtrack_return
    \/ solve_return

NextSolve ==
    \/ calls = 0 /\ solve
    \/ solve_backtrack
    \/ solve_backtrack_loop
    \/ solve_backtrack_return
    \/ solve_return

SpecSolve == Init /\ [][NextSolve]_vars /\ WF_vars(SearchStep)


(***************************************************************************)
(* generate_puzzle: the diagonal boxes seeded, the grid completed by       *)
(* _solve_backtrack, and _remove_numbers taking cells out one at a time    *)
(* with count_solutions as its oracle.                                     *)
(***************************************************************************)
Easy == <<"e", "a", "s", "y">>
Medium == <<"m", "e", "d", "i", "u", "m">>
Hard == <<"h", "a", "r", "d">>

UpperLetters == <<"A", "B", "C", "D", "E", "F", "G", "H", "I", "J", "K", "L", "M",
                  "N", "O", "P", "Q", "R", "S", "T", "U", "V", "W", "X", "Y", "Z">>
LowerLetters == <<"a", "b", "c", "d", "e", "f", "g", "h", "i", "j", "k", "l", "m",
                  "n", "o", "p", "q", "r", "s", "t", "u", "v", "w", "x", "y", "z">>

\* str.lower
lower(str) ==
    [i \in 1 .. Len(str) |->
        IF \E k \in 1 .. 26 : UpperLetters[k] = str[i]
        THEN LowerLetters[CHOOSE k \in 1 .. 26 : UpperLetters[k] = str[i]]
        ELSE str[i]]

\* difficulty_levels.get(difficulty.lower(), 45)
difficulty_levels == [k \in {Easy, Medium, Hard} |->
                         IF k = Easy THEN 35 ELSE IF k = Medium THEN 45 ELSE 55]
cells_to_remove_for(str) ==
    IF lower(str) \in DOMAIN difficulty_levels THEN difficulty_levels[lower(str)] ELSE 45

\* the difficulty strings a caller passes
Difficulties == { <<"E", "a", "s", "y">>, Medium, <<"H", "A", "R", "D">>,
                  <<"e", "x", "p", "e", "r", "t">> }

\* random.shuffle(nums) in _fill_box: the outcomes drawn are the rotations of
\* 1..9, one per diagonal box; SeedList names the rotations of the three boxes
Rot(k) == [i \in 1 .. 9 |-> ((i - 1 + k) % 9) + 1]
SeedList == << <<0, 1, 0>>, <<0, 0, 0>>, <<3, 5, 7>>, <<1, 0, 0>> >>
Seedings == {SeedList[i] : i \in 1 .. MaxSeedings}

\* random.shuffle(all_cells): the outcomes drawn visit the rows bottom-up and
\* the columns of a row in the order a * j + b mod 9; ShuffleList names a, b
ShuffleList == << <<8, 8>>, <<7, 2>>, <<2, 0>> >>
Order(ab) == [i \in 1 .. N * N |->
                 <<N - 1 - ((i - 1) \div N), (ab[1] * ((i - 1) % N) + ab[2]) % N>>]
Shuffles == {Order(ShuffleList[i]) : i \in 1 .. MaxShuffles}

\* the three calls of _fill_box(i, i), i = 0, 3, 6, on the cleared board
fill_boxes(seed) ==
    [r \in Idx |-> [c \in Idx |->
        IF r \div BoxSize = c \div BoxSize
        THEN Rot(seed[(r \div BoxSize) + 1])[(r % BoxSize) * BoxSize + (c % BoxSize) + 1]
        ELSE 0]]

InitGen ==
    /\ board = EmptyBoard
    /\ called_board = board
    /\ NoCaller
    /\ InitRest

\* generate_puzzle up to its call of _solve_backtrack; steps is not reset
generate_puzzle(d, seed) ==
    /\ pc = "idle"
    /\ difficulty' = d
    /\ board' = fill_boxes(seed)
    /\ op' = "generate"
    /\ called_board' = board
    /\ calls' = calls + 1
    /\ stack' = << >>
    /\ pc' = "sb_enter"
    /\ Rebound
    /\ UNCHANGED <<steps, result, probe, ret, solutions, max_solutions, original_board,
                   all_cells, idx, removed, cells_to_remove, backup, solved_board,
                   got, solve_board, ui, worker>>

\* _solve_backtrack has returned to generate_puzzle (its answer is not looked
\* at): copy the grid, enter _remove_numbers up to its for loop
remove_numbers(order) ==
    /\ pc = "sb_ret"
    /\ stack = << >>
    /\ op = "generate"
    /\ solved_board' = board
    /\ cells_to_remove' = cells_to_remove_for(difficulty)
    /\ all_cells' = order
    /\ removed' = 0
    /\ idx' = 1
    /\ ret' = FALSE
    /\ pc' = "rm_loop"
    /\ UNCHANGED <<board, steps, op, result, called_board, calls, probe, host_vars, stack, solutions,
                   max_solutions, original_board, difficulty, backup>>

\* the break of the removal loop taken one removal late
loop_breaks_late(n, target) == n > target

\* if removed >= cells_to_remove: break
loop_breaks(n, target) == n >= target

\* one more position: take its value out and call count_solutions()
remove_numbers_next ==
    /\ pc = "rm_loop"
    /\ idx <= Len(all_cells)
    /\ ~loop_breaks(removed, cells_to_remove)
    /\ LET row == all_cells[idx][1]
           col == all_cells[idx][2]
       IN  /\ backup' = board[row][col]
           /\ board' = ResetCell(board, row, col)
    /\ solutions' = 0
    /\ max_solutions' = 2
    /\ original_board' = board'
    /\ stack' = << >>
    /\ pc' = "bt_enter"
    /\ UNCHANGED <<steps, op, result, called_board, calls, probe, host_vars, ret, difficulty,
                   all_cells, idx, removed, cells_to_remove, solved_board>>

\* the removal kept whenever the grid still has a solution
keeps_removal_if_solvable(n) == n >= 1

\* if self.count_solutions() == 1
keeps_removal(n) == n = 1

\* count_solutions has returned to _remove_numbers: the board is restored,
\* then the removal is kept or the value put back
remove_numbers_counted ==
    /\ pc = "bt_ret"
    /\ stack = << >>
    /\ op = "generate"
    /\ LET row == all_cells[idx][1]
           col == all_cells[idx][2]
       IN  IF keeps_removal(solutions)
           THEN /\ removed' = removed + 1
                /\ board' = original_board
           ELSE /\ removed' = removed
                /\ board' = PlaceCell(original_board, row, col, backup)
    /\ idx' = idx + 1
    /\ pc' = "rm_loop"
    /\ ret' = FALSE
    /\ solutions' = 0
    /\ max_solutions' = 0
    /\ original_board' = EmptyBoard
    /\ UNCHANGED <<steps, op, result, called_board, calls, probe, host_vars, stack, difficulty,
                   all_cells, cells_to_remove, backup, solved_board>>

\* the loop is over: _remove_numbers returns, generate_puzzle returns
\* solved_board
generate_puzzle_return ==
    /\ pc = "rm_loop"
    /\ idx > Len(all_cells) \/ loop_breaks(removed, cells_to_remove)
    /\ result' = [op |-> "generate", value |-> solved_board, arg |-> difficulty]
    /\ pc' = "idle"
    /\ op' = "none"
    /\ UNCHANGED <<board, steps, called_board, calls, probe, host_vars, search_vars, gen_vars>>

NextGen ==
    \/ calls = 0 /\ \E d \in Difficulties, seed \in Seedings : generate_puzzle(d, seed)
    \/ solve_backtrack
    \/ solve_backtrack_loop
    \/ solve_backtrack_return
    \/ \E order \in Shuffles : remove_numbers(order)
    \/ remove_numbers_next
    \/ backtrack
    \/ backtrack_loop
    \/ backtrack_return
    \/ remove_numbers_counted
    \/ generate_puzzle_return

SpecGen == InitGen /\ [][NextGen]_vars

(***************************************************************************)
(* A fresh solver on which solve is called and generate_puzzle after it:   *)
(* what get_solve_metrics has to report at each point.                     *)
(***************************************************************************)
\* return (self.steps, self.solve_time): the steps part
get_solve_metrics == steps

NextMetrics ==
    \/ calls = 0 /\ solve
    \/ solve_backtrack
    \/ solve_backtrack_loop
    \/ solve_backtrack_return
    \/ solve_return
    \/ calls = 1 /\ \E d \in Difficulties, seed \in Seedings : generate_puzzle(d, seed)
    \/ \E order \in Shuffles : remove_numbers(order)
    \/ remove_numbers_next
    \/ backtrack
    \/ backtrack_loop
    \/ backtrack_return
    \/ remove_numbers_counted
    \/ generate_puzzle_return

SpecMetrics == InitGen /\ [][NextMetrics]_vars

(***************************************************************************)
(* A direct call of is_valid, for every num and pos, on the sample puzzles *)
(* and on the full grids among the edited ones (a digit overwritten).      *)
(***************************************************************************)
ProbeBoards ==
    {SampleEasy, SampleMedium, SampleHard} \cup {b \in EditedBoards : EmptyCells(b) = {}}

InitValid ==
    /\ board \in ProbeBoards
    /\ called_board = board
    /\ NoCaller
    /\ InitRest

is_valid_call(num, pos) ==
    /\ pc = "idle"
    /\ probe = NoProbe
    /\ probe' = [num |-> num, pos |-> pos, answer |-> is_valid(board, num, pos)]
    /\ UNCHANGED <<board, steps, pc, op, result, called_board, calls,
                   search_vars, gen_vars, host_vars>>

NextValidCall == \E num \in 1 .. 9, pos \in Cells : is_valid_call(num, pos)

SpecValid == InitValid /\ [][NextValidCall]_vars

(***************************************************************************)
(* is_valid_board as it runs: each filled cell in row-major order is taken *)
(* out, tested as a placement of its own value, and put back.              *)
(***************************************************************************)
\* the restore before return False left out
restore_rejected_missing(z, i, j, num) == z

\* self.board[i][j] = num  # Restore value, on the path that returns False
restore_rejected(z, i, j, num) == PlaceCell(z, i, j, num)

\* the inner loop, for j in range(9), of row i from column j on: the board it
\* leaves, and whether it went through without return False
RECURSIVE is_valid_board_row(_, _, _)
is_valid_board_row(b, i, j) ==
    IF j = N THEN [board |-> b, answer |-> TRUE]
    ELSE LET num == b[i][j]
             z == ResetCell(b, i, j)
         IN  IF num = 0 THEN is_valid_board_row(b, i, j + 1)
             ELSE IF ~is_valid(z, num, <<i, j>>)
                  THEN [board |-> restore_rejected(z, i, j, num), answer |-> FALSE]
                  ELSE is_valid_board_row(PlaceCell(z, i, j, num), i, j + 1)

\* the outer loop, for i in range(9), from row i on: the board the call
\* leaves and its answer
RECURSIVE is_valid_board_from(_, _)
is_valid_board_from(b, i) ==
    IF i = N THEN [board |-> b, answer |-> TRUE]
    ELSE LET row == is_valid_board_row(b, i, 0)
         IN  IF row.answer THEN is_valid_board_from(row.board, i + 1) ELSE row

is_valid_board_call ==
    /\ pc = "idle"
    /\ LET run == is_valid_board_from(board, 0)
       IN  /\ board' = run.board
           /\ result' = [op |-> "valid", value |-> run.answer, arg |-> 0]
    /\ called_board' = board
    /\ calls' = calls + 1
    /\ UNCHANGED <<steps, pc, op, probe, search_vars, gen_vars, host_vars>>

CheckBoards == InitBoards \cup {SampleEasy, SampleHard}

InitCheck ==
    /\ board \in CheckBoards
    /\ called_board = board
    /\ NoCaller
    /\ InitRest

NextCheck == calls = 0 /\ is_valid_board_call

SpecCheck == InitCheck /\ [][NextCheck]_vars

(***************************************************************************)
(* A caller and its solver: the solver built with the caller's list or     *)
(* without one, then calls of solve, count_solutions, is_valid_board,      *)
(* set_board and get_board in any order, and the caller writing into the   *)
(* list it built the solver with.                                          *)
(***************************************************************************)
ClientCells == {EditCellList[i] : i \in 1 .. MaxClientCells}
ClientBoards ==
    {SampleMedium} \cup {Cleared(SolvedMedium, H) : H \in SUBSET ClientCells}

\* SudokuSolver(board): self.board = board, the caller's own list;
\* SudokuSolver(): a fresh all-zero grid
InitClient ==
    /\ \/ board \in ClientBoards /\ shared = TRUE
       \/ board = EmptyBoard /\ shared = FALSE
    /\ caller_grid = None
    /\ called_board = board
    /\ InitRest

\* the caller's list as the caller sees it
CallerSees == IF shared THEN board ELSE caller_grid

\* self.board = copy.deepcopy(board)
set_board(g) ==
    /\ pc = "idle"
    /\ board' = g
    /\ Rebound
    /\ calls' = calls + 1
    /\ UNCHANGED <<steps, pc, op, result, called_board, probe, search_vars, gen_vars,
                   got, solve_board, ui, worker>>

\* return copy.deepcopy(self.board)
get_board ==
    /\ pc = "idle"
    /\ got' = board
    /\ calls' = calls + 1
    /\ UNCHANGED <<board, steps, pc, op, result, called_board, probe, search_vars,
                   gen_vars, caller_grid, shared, solve_board, ui, worker>>

\* the caller assigns to a cell of the list it built the solver with
caller_write(p, d) ==
    /\ pc = "idle"
    /\ CallerSees # None
    /\ IF shared
       THEN /\ board' = PlaceCell(board, p[1], p[2], d)
            /\ caller_grid' = caller_grid
       ELSE /\ caller_grid' = PlaceCell(caller_grid, p[1], p[2], d)
            /\ board' = board
    /\ calls' = calls + 1
    /\ UNCHANGED <<steps, pc, op, result, called_board, probe, search_vars, gen_vars,
                   shared, got, solve_board, ui, worker>>

CallerWrites == \E p \in PokeCells, d \in 0 .. MaxPokeCells : caller_write(p, d)

NextClient ==
    \/ calls < MaxClientCalls /\ solve
    \/ solve_backtrack
    \/ solve_backtrack_loop
    \/ solve_backtrack_return
    \/ solve_return
    \/ calls < MaxClientCalls /\ count_solutions(2)
    \/ backtrack
    \/ backtrack_loop
    \/ backtrack_return
    \/ count_solutions_return
    \/ calls < MaxClientCalls /\ is_valid_board_call
    \/ calls < MaxClientCalls /\ get_board
    \/ calls < MaxClientCalls /\ \E g \in {got, CallerSees} \ {None} : set_board(g)
    \/ calls < MaxClientCalls /\ CallerWrites

SpecClient == InitClient /\ [][NextClient]_vars

(***************************************************************************)
(* The window (SudokuGUI) and its solver.  The handlers run on the main    *)
(* thread; solve_puzzle starts a thread that calls solve, whose search     *)
(* goes on step by step while further handlers run.  A handler is taken as *)
(* one step between two steps of the search.  The window is taken up after *)
(* the medium sample was loaded and the user has typed digits into its     *)
(* empty cells; the cells the user still types into are GuiCells.          *)
(***************************************************************************)
GuiCellList == << <<2, 4>>, <<8, 3>>, <<5, 4>>, <<8, 8>> >>
GuiCells == {GuiCellList[i] : i \in 1 .. MaxGuiCells}

InitGui ==
    /\ board = EmptyBoard
    /\ called_board = board
    /\ NoCaller
    /\ steps = 0
    /\ pc = "idle"
    /\ op = "none"
    /\ stack = << >>
    /\ ret = FALSE
    /\ solutions = 0
    /\ max_solutions = 0
    /\ original_board = EmptyBoard
    /\ result = NoResult
    /\ calls = 0
    /\ probe = NoProbe
    /\ difficulty = << >>
    /\ all_cells = << >>
    /\ idx = 0
    /\ removed = 0
    /\ cells_to_remove = 0
    /\ backup = 0
    /\ solved_board = EmptyBoard
    /\ got = EmptyBoard
    /\ solve_board = None
    /\ ui \in {Cleared(SolvedMedium, H) : H \in SUBSET GuiCells}
    /\ worker = NoWorker

\* SudokuBoard._on_key_press on a selected cell that is not readonly: a digit
\* key, or Delete / BackSpace (d = 0)
on_key_press(p, d) ==
    /\ ui' = PlaceCell(ui, p[1], p[2], d)
    /\ calls' = calls + 1
    /\ UNCHANGED <<board, steps, pc, op, result, called_board, probe, search_vars,
                   gen_vars, caller_grid, shared, got, solve_board, worker>>

\* SudokuGUI.solve_puzzle: set_board of the window's grid, is_valid_board,
\* and, the grid found valid, the start of the thread solve_thread
solve_puzzle ==
    /\ LET run == is_valid_board_from(ui, 0)
       IN  /\ board' = run.board
           /\ IF run.answer
              THEN /\ worker' = [target |-> "solve_thread", original_board |-> ui]
                   /\ result' = NoResult
              ELSE UNCHANGED <<worker, result>>
    /\ Rebound
    /\ calls' = calls + 1
    /\ UNCHANGED <<steps, pc, op, called_board, probe, search_vars, gen_vars,
                   got, solve_board, ui>>

\* solve_thread: solved = self.solver.solve()
solve_thread ==
    /\ worker.target = "solve_thread"
    /\ result = NoResult
    /\ solve

\* highlight_solution: the cells empty in original_board take the solver's
\* values
highlight_solution(original, solved) ==
    [r \in Idx |-> [c \in Idx |->
        IF original[r][c] = 0 /\ solved[r][c] # 0 THEN solved[r][c] ELSE ui[r][c]]]

\* _handle_solve_result, run on the main thread once solve has returned
handle_solve_result ==
    /\ worker.target = "solve_thread"
    /\ pc = "idle"
    /\ result.op = "solve"
    /\ IF result.value
       THEN /\ got' = board
            /\ ui' = highlight_solution(worker.original_board, board)
       ELSE UNCHANGED <<got, ui>>
    /\ worker' = NoWorker
    /\ UNCHANGED <<board, steps, pc, op, result, called_board, calls, probe,
                   search_vars, gen_vars, caller_grid, shared, solve_board>>

\* SudokuGUI.check_puzzle: set_board of the window's grid, is_valid_board,
\* and, the grid found valid, count_solutions(), which ends by putting its
\* copy of that grid back as the board
check_puzzle ==
    /\ LET run == is_valid_board_from(ui, 0)
           copy == run.board
       IN  board' = IF run.answer THEN copy ELSE run.board
    /\ Rebound
    /\ calls' = calls + 1
    /\ UNCHANGED <<steps, pc, op, result, called_board, probe, search_vars, gen_vars,
                   got, solve_board, ui, worker>>

NextGui ==
    \/ calls < MaxGuiEvents /\ \E p \in GuiCells, d \in 0 .. 9 : on_key_press(p, d)
    \/ calls < MaxGuiEvents /\ worker = NoWorker /\ solve_puzzle
    \/ calls < MaxGuiEvents /\ check_puzzle
    \/ solve_thread
    \/ solve_backtrack
    \/ solve_backtrack_loop
    \/ solve_backtrack_return
    \/ solve_return
    \/ handle_solve_result

SpecGui == InitGui /\ [][NextGui]_vars

Returned(o) == pc = "idle" /\ result.op = o
SolveReturned(v) == Returned("solve") /\ result.value = v

(***************************************************************************)
(* The claims.                                                             *)
(***************************************************************************)

\* C1, as claimed: for every grid handed to solve, whenever solve returns
\* true the grid has no empty cell and every row, column and box holds each
\* of 1..9 exactly once.
C1_SolvedWhateverGrid == SolveReturned(TRUE) => IsSolvedGrid(board)

\* C1, amended: for every grid on which is_valid_board returns true,
\* whenever solve returns true the grid has no empty cell and every row,
\* column and box holds each of 1..9 exactly once.
C1_SolvedWhenValid ==
    (SolveReturned(TRUE) /\ is_valid_board(called_board)) => IsSolvedGrid(board)

\* solve has returned true on a valid grid that had empty cells and needed a
\* search with backtracking
C1_Witness ==
    /\ SolveReturned(TRUE)
    /\ is_valid_board(called_board)
    /\ Cardinality(EmptyCells(called_board)) >= 2
    /\ steps > Cardinality(EmptyCells(called_board)) + 1

\* C2: when solve returns false the grid equals, cell for cell, the grid at
\* the moment solve was called.
C2_FailureRestoresGrid == SolveReturned(FALSE) => board = called_board

\* solve has returned false after a search that placed and took back digits
C2_Witness ==
    /\ SolveReturned(FALSE)
    /\ steps >= 3
    /\ EmptyCells(called_board) # {}

\* C3: on a grid on which is_valid_board returns true, solve returns true if
\* and only if the grid has a completion satisfying all row, column and box
\* constraints; and when it returns true the grid is such a completion.
C3_SolveIffCompletion ==
    (Returned("solve") /\ is_valid_board(called_board)) =>
        /\ result.value = HasCompletion(called_board)
        /\ result.value => (IsSolvedGrid(board) /\ Extends(board, called_board))

\* solve has returned false on a valid grid after trying placements
C3_Witness ==
    /\ SolveReturned(FALSE)
    /\ is_valid_board(called_board)
    /\ steps >= 3

\* C4: every cell that is nonzero when solve is called holds the same value
\* at every point of the search and after solve returns.
C4_CluesNeverChange ==
    (op = "solve" \/ Returned("solve")) => Extends(board, called_board)

\* the search is three frames deep on a grid with clues
C4_Witness ==
    /\ op = "solve"
    /\ Len(stack) >= 3
    /\ \E p \in Cells : Val(called_board, p) # 0

\* C5: when count_solutions returns, the grid equals the grid before the
\* call, also when the search stopped early at the cap.
C5_CountRestoresGrid == Returned("count") => board = called_board

\* count_solutions has returned after stopping at the cap on a grid with
\* empty cells
C5_Witness ==
    /\ Returned("count")
    /\ result.arg >= 1
    /\ result.value = result.arg
    /\ EmptyCells(board) # {}

\* C6: on a grid on which is_valid_board returns true, count_solutions with
\* max_solutions = 2 returns 0, 1 or 2 as the grid has no, exactly one, or
\* two or more completions.
C6_UniquenessOracle ==
    (Returned("count") /\ result.arg = 2 /\ is_valid_board(called_board)) =>
        result.value = CompletionsUpTo(called_board, 2)

\* count_solutions(2) has returned 2 on a valid grid
C6_Witness ==
    /\ Returned("count")
    /\ result.arg = 2
    /\ is_valid_board(called_board)
    /\ result.value = 2
    /\ Cardinality(EmptyCells(called_board)) <= MaxEditCells

\* C7, as claimed: the value count_solutions returns is never greater than
\* the max_solutions the caller supplied.
C7_CountWithinCap == Returned("count") => result.value <= result.arg

\* C10: is_valid(num, pos) is true if and only if no cell other than pos in
\* the row, the column or the 3x3 box of pos holds num.
C10_IsValidIffNoPeer ==
    probe # NoProbe => probe.answer = NoPeerHolds(board, probe.num, probe.pos)

\* is_valid has answered true for the digit the cell itself holds
C10_Witness ==
    /\ probe # NoProbe
    /\ probe.answer
    /\ Val(board, probe.pos) = probe.num

\* C8: the puzzle left in the grid by generate_puzzle has exactly one
\* completion, and that completion is the solved board generate_puzzle
\* returns.
C8_GeneratedPuzzleUnique ==
    Returned("generate") =>
        /\ CompletionsUpTo(board, 2) = 1
        /\ IsSolvedGrid(result.value)
        /\ Extends(result.value, board)

\* generate_puzzle has returned a puzzle from which it took cells out, after
\* putting at least one value back
C8_Witness ==
    /\ Returned("generate")
    /\ removed >= 35
    /\ removed < idx - 1

\* the removal target the claim gives a difficulty string: 35 for "easy", 45
\* for "medium", 55 for "hard" in any mix of cases, 45 for anything else
UpperOf == [ch \in {LowerLetters[k] : k \in 1 .. 26} |->
               UpperLetters[CHOOSE k \in 1 .. 26 : LowerLetters[k] = ch]]
Spells(str, word) ==
    /\ Len(str) = Len(word)
    /\ \A i \in 1 .. Len(word) : str[i] = word[i] \/ str[i] = UpperOf[word[i]]
ClaimedTarget(str) ==
    IF Spells(str, Easy) THEN 35
    ELSE IF Spells(str, Hard) THEN 55
    ELSE 45

\* C9: after generate_puzzle(difficulty) the number of empty cells of the
\* puzzle is at most the removal target of the difficulty.
C9_RemovalsWithinTarget ==
    Returned("generate") => Cardinality(EmptyCells(board)) <= ClaimedTarget(result.arg)

\* generate_puzzle has returned with exactly the target number of cells
\* empty for a difficulty given in capitals
C9_Witness ==
    /\ Returned("generate")
    /\ result.arg # lower(result.arg)
    /\ Cardinality(EmptyCells(board)) = ClaimedTarget(result.arg)

\* C11: is_valid_board does not change the grid: on the true and on the
\* false return path the grid after the call equals the grid before it, cell
\* for cell.
C11_ValidBoardKeepsGrid == Returned("valid") => board = called_board

\* is_valid_board has returned false on a grid, past cells it had taken out
\* and put back
C11_Witness ==
    /\ Returned("valid")
    /\ ~result.value
    /\ \E p \in Cells : Val(called_board, p) # 0 /\ is_valid(called_board, Val(called_board, p), p)

\* C12, as claimed: solve applied to a grid in which two filled cells of one
\* row hold the same value returns false.
C12_RowConflictFails ==
    (Returned("solve") /\ RowDuplicate(called_board)) => ~result.value

\* C12, amended: on a grid in which two filled cells of one row hold the same
\* value, solve returns false exactly when the empty cells cannot all be
\* filled without a filled-in digit repeating in its row, column or box; on
\* such a grid without empty cells it returns true.
C12_RowConflictFailsIffNoFill ==
    (Returned("solve") /\ RowDuplicate(called_board)) =>
        result.value = CanFillEmpties(called_board)

\* solve has returned false on a grid with a row conflict after placing
\* digits and taking them back
C12_Witness ==
    /\ SolveReturned(FALSE)
    /\ RowDuplicate(called_board)
    /\ steps >= 3

\* C13, as claimed: the caller's list and the engine's grid are apart: no
\* step of the solver changes the cells the caller sees in the list it built
\* the solver with, no write of the caller changes the solver's board, and
\* set_board of the grid get_board has just handed out leaves the board as
\* it is.
C13_NoAliasing ==
    [][/\ CallerWrites => board' = board
       /\ ~CallerWrites => CallerSees' = CallerSees
       /\ (got = board /\ set_board(got)) => board' = board]_vars

\* C14: solve on a full valid grid returns true with steps equal to 1; and
\* whenever solve returns, steps is the number of nodes of the search from
\* the grid solve was called on, whatever steps was before the call.
C14_StepsCountVisits ==
    Returned("solve") =>
        /\ steps = Visits(solve_board)
        /\ IsSolvedGrid(solve_board) => (result.value /\ steps = 1)

\* solve has returned true at step 1 on a full valid grid, after an earlier
\* call on the same solver
C14_Witness ==
    /\ SolveReturned(TRUE)
    /\ IsSolvedGrid(solve_board)
    /\ steps = 1
    /\ calls >= 2

\* C15, as claimed: once solve has been called on a solver, whatever calls
\* follow, the steps get_solve_metrics returns is the number of search nodes
\* the most recent solve call visited.
C15_MetricsOfLastSolve ==
    (pc = "idle" /\ solve_board # None) => get_solve_metrics = Visits(solve_board)

\* C16, as claimed: while a thread of the window is in solve the search has
\* the board to itself, so that what solve returns is for the grid it was
\* called on (a grid solve_puzzle found valid): true with a completion of
\* that grid in the board, or false with that grid having no completion and
\* back in the board.
C16_SearchOwnsBoard ==
    (Returned("solve") /\ worker.target = "solve_thread" /\ is_valid_board(called_board)) =>
        /\ result.value = HasCompletion(called_board)
        /\ result.value => (IsSolvedGrid(board) /\ Extends(board, called_board))
        /\ ~result.value => board = called_board

\* C17, as claimed: solve terminates on every grid, and the calls of the
\* recursive search step are never nested more than 81 deep.
C17_TerminatesWithin81 ==
    /\ (op = "solve") ~> Returned("solve")
    /\ [](op = "solve" => Depth <= 81)

\* C17, amended: solve terminates on every grid, and the calls of the
\* recursive search step are never nested more than 82 deep: one per cell at
\* worst, and the innermost call, which finds no empty cell.
C17_TerminatesWithin82 ==
    /\ (op = "solve") ~> Returned("solve")
    /\ [](op = "solve" => Depth <= 82)

\* the search from the all-empty grid is 82 calls deep
C17_Witness ==
    /\ op = "solve"
    /\ called_board = EmptyBoard
    /\ Depth = 82

=============================================================================
